---- MODULE Spec2Model ----
(***************************************************************************)
(* Pipal::Problem / Pipal::ProblemWrapper (include/Pipal/Problem.hh).      *)
(*                                                                         *)
(* ProblemWrapper<Real, N, M> stores six std::function handles, one per    *)
(* evaluation operation of the abstract Problem class, and forwards every  *)
(* evaluation to the handle of the same name.  The state is the six stored *)
(* handles; the operations are the six getters, the six setters and the    *)
(* six evaluation overrides.  History variables record the constructor     *)
(* call, the last setter argument per operation and the last call.         *)
(***************************************************************************)
EXTENDS Integers, Sequences, FiniteSets, TLC

\* ------------------------------------------------------------------ bounds
NumHandles == 2     \* distinct non-empty callables a caller can supply
MaxX       == 1     \* primal vectors 0..MaxX; vector 0 holds a NaN entry
MaxZ       == 1     \* dual vectors 1..MaxZ
MaxSetOps  == 2     \* operations whose handle is replaced after construction
MaxDim     == 2     \* largest template dimension tried for N and M

\* --------------------------------------------------------------- constants
NULL == 0           \* the empty std::function, `{nullptr}`

Ops == <<"objective", "objective_gradient", "objective_hessian",
         "constraints", "constraints_jacobian", "lagrangian_hessian">>
OpNames == {Ops[i] : i \in 1..Len(Ops)}

Callables == 1..NumHandles
Handles   == {NULL} \cup Callables

PrimalVectors == 0..MaxX                           \* VectorN values
DualVectors   == 1..MaxZ                           \* VectorM values

RealTypes == {"double", "int"}
Dims      == {-1, 0, 1, MaxDim}

VARIABLES
  Real, N, M,               \* template arguments of Problem<Real, N, M>
  instance,                 \* TRUE iff the class template could be instantiated
  m_objective, m_objective_gradient, m_objective_hessian,
  m_constraints, m_constraints_jacobian, m_lagrangian_hessian,
  ctor,                     \* history: constructor form and its arguments
  setBy,                    \* history: op -> argument of the last setter call for op
  call,                     \* history: the last call made on the object
  history                   \* TRUE iff a call also records the call before it

members == <<m_objective, m_objective_gradient, m_objective_hessian,
             m_constraints, m_constraints_jacobian, m_lagrangian_hessian>>
template == <<Real, N, M, instance, history>>
vars == <<Real, N, M, instance, m_objective, m_objective_gradient,
          m_objective_hessian, m_constraints, m_constraints_jacobian,
          m_lagrangian_hessian, ctor, setBy, call, history>>

\* The handle currently stored for operation X.
Member(X) ==
  CASE X = "objective"            -> m_objective
    [] X = "objective_gradient"   -> m_objective_gradient
    [] X = "objective_hessian"    -> m_objective_hessian
    [] X = "constraints"          -> m_constraints
    [] X = "constraints_jacobian" -> m_constraints_jacobian
    [] X = "lagrangian_hessian"   -> m_lagrangian_hessian

\* ---------------------------------------------------- template parameters
IsFloatingPoint(T) == T \in {"float", "double", "long double"}

StaticAssertsWeak(T, n, m) == IsFloatingPoint(T) /\ n >= 0 /\ m > 0

\* The three static_asserts of class Problem.
StaticAsserts(T, n, m) == IsFloatingPoint(T) /\ n > 0 /\ m > 0

\* ------------------------------------------------------ supplied callables
\* What the caller's callable f does on args: even-numbered callables throw
\* their own error when the primal vector holds a NaN, all others return a
\* value that identifies the callable and the arguments it received.
HasNaN(x) == x = 0

Target(f, args) ==
  IF f % 2 = 0 /\ HasNaN(args[1])
    THEN [kind |-> "throws",  what  |-> <<f, args>>]
    ELSE [kind |-> "returns", value |-> <<f, args>>]

InvokeDefault(f, args) ==
  IF f = NULL THEN [kind |-> "returns", value |-> <<NULL, <<>> >>]
              ELSE Target(f, args)

\* std::function::operator(): throws std::bad_function_call when empty,
\* otherwise forwards the arguments to the target and returns its result.
Invoke(f, args) ==
  IF f = NULL THEN [kind |-> "bad_function_call"]
              ELSE Target(f, args)

\* ------------------------------------------------------------ constructors
\* Both constructors yield the six members; a member without an initializer
\* in the constructor keeps its default member initializer {nullptr}.
Ctor5Aliased(objective, objective_gradient, constraints, constraints_jacobian, lagrangian_hessian) ==
  [objective            |-> objective,
   objective_gradient   |-> objective_gradient,
   objective_hessian    |-> lagrangian_hessian,
   constraints          |-> constraints,
   constraints_jacobian |-> constraints_jacobian,
   lagrangian_hessian   |-> lagrangian_hessian]

Ctor5(objective, objective_gradient, constraints, constraints_jacobian, lagrangian_hessian) ==
  [objective            |-> objective,
   objective_gradient   |-> objective_gradient,
   objective_hessian    |-> NULL,
   constraints          |-> constraints,
   constraints_jacobian |-> constraints_jacobian,
   lagrangian_hessian   |-> lagrangian_hessian]

Ctor6Miswired(objective, objective_gradient, objective_hessian, constraints, constraints_jacobian, lagrangian_hessian) ==
  [objective            |-> objective,
   objective_gradient   |-> objective_gradient,
   objective_hessian    |-> objective_hessian,
   constraints          |-> constraints_jacobian,
   constraints_jacobian |-> constraints,
   lagrangian_hessian   |-> lagrangian_hessian]

Ctor6(objective, objective_gradient, objective_hessian, constraints, constraints_jacobian, lagrangian_hessian) ==
  [objective            |-> objective,
   objective_gradient   |-> objective_gradient,
   objective_hessian    |-> objective_hessian,
   constraints          |-> constraints,
   constraints_jacobian |-> constraints_jacobian,
   lagrangian_hessian   |-> lagrangian_hessian]

\* The object holds the members the constructor produced.
Constructed(r) ==
  /\ m_objective            = r.objective
  /\ m_objective_gradient   = r.objective_gradient
  /\ m_objective_hessian    = r.objective_hessian
  /\ m_constraints          = r.constraints
  /\ m_constraints_jacobian = r.constraints_jacobian
  /\ m_lagrangian_hessian   = r.lagrangian_hessian

\* ----------------------------------------------------------------- getters
get_objective == m_objective

get_objective_gradient == m_objective_gradient

get_objective_hessian == m_objective_hessian

get_constraints_wrong == m_constraints_jacobian

get_constraints == m_constraints

get_constraints_jacobian == m_constraints_jacobian

get_lagrangian_hessian == m_lagrangian_hessian

\* ----------------------------------------------------------------- setters
set_objective(f) ==
  /\ m_objective' = f
  /\ UNCHANGED <<m_objective_gradient, m_objective_hessian, m_constraints, m_constraints_jacobian, m_lagrangian_hessian>>

set_objective_gradient_both(f) ==
  /\ m_objective_gradient' = f
  /\ m_objective' = f
  /\ UNCHANGED <<m_objective_hessian, m_constraints, m_constraints_jacobian, m_lagrangian_hessian>>

set_objective_gradient(f) ==
  /\ m_objective_gradient' = f
  /\ UNCHANGED <<m_objective, m_objective_hessian, m_constraints, m_constraints_jacobian, m_lagrangian_hessian>>

set_objective_hessian_once(f) ==
  /\ m_objective_hessian' = IF m_objective_hessian = NULL THEN NULL ELSE f
  /\ UNCHANGED <<m_objective, m_objective_gradient, m_constraints, m_constraints_jacobian, m_lagrangian_hessian>>

set_objective_hessian(f) ==
  /\ m_objective_hessian' = f
  /\ UNCHANGED <<m_objective, m_objective_gradient, m_constraints, m_constraints_jacobian, m_lagrangian_hessian>>

set_constraints(f) ==
  /\ m_constraints' = f
  /\ UNCHANGED <<m_objective, m_objective_gradient, m_objective_hessian, m_constraints_jacobian, m_lagrangian_hessian>>

set_constraints_jacobian(f) ==
  /\ m_constraints_jacobian' = f
  /\ UNCHANGED <<m_objective, m_objective_gradient, m_objective_hessian, m_constraints, m_lagrangian_hessian>>

set_lagrangian_hessian(f) ==
  /\ m_lagrangian_hessian' = f
  /\ UNCHANGED <<m_objective, m_objective_gradient, m_objective_hessian, m_constraints, m_constraints_jacobian>>

\* ------------------------------------------------------ evaluation methods
objective(x) == Invoke(m_objective, <<x>>)

objective_gradient(x) == Invoke(m_objective_gradient, <<x>>)

objective_hessian(x) == Invoke(m_objective_hessian, <<x>>)

constraints_cached(x) ==
  IF call.kind = "set" /\ call.op = "constraints" /\ call.prior.kind = "eval"
       /\ call.prior.args = <<x>>
    THEN call.prior.outcome
    ELSE Invoke(m_constraints, <<x>>)

constraints(x) == Invoke(m_constraints, <<x>>)

constraints_jacobian(x, z) == Invoke(m_constraints_jacobian, <<x, z>>)

lagrangian_hessian_checked(x, z) ==
  IF HasNaN(x) THEN [kind |-> "invalid_argument"]
           ELSE Invoke(m_lagrangian_hessian, <<x, z>>)

lagrangian_hessian(x, z) == Invoke(m_lagrangian_hessian, <<x, z>>)

\* ------------------------------------------------------- history recording
\* setBy after the setter for X was called with f.
Put(X, f) == [Y \in DOMAIN setBy \cup {X} |-> IF Y = X THEN f ELSE setBy[Y]]

\* Bound: at most MaxSetOps distinct operations have their handle replaced.
CanSet(X) == Cardinality(DOMAIN setBy \cup {X}) <= MaxSetOps

\* What a setter call for X remembers of the call just before it: an
\* evaluation of X (its arguments and outcome) or a setter call for X.
SetPrior(X) ==
  IF ~history THEN [kind |-> "none"]
  ELSE IF call.kind = "eval" /\ call.op = X
    THEN [kind |-> "eval", args |-> call.args, outcome |-> call.outcome]
  ELSE IF call.kind = "set" /\ call.op = X
    THEN [kind |-> "set", arg |-> call.arg]
  ELSE [kind |-> "none"]

\* What an evaluation of X at args remembers: the outcome of the same
\* evaluation made just before it, or just before the setter call before it,
\* or the handle that the two setter calls before it put in place first.
EvalPrior(X, args) ==
  IF ~history THEN [kind |-> "none"]
  ELSE IF call.kind = "eval" /\ call.op = X /\ call.args = args
    THEN [kind |-> "same", outcome |-> call.outcome]
  ELSE IF call.kind = "set" /\ call.op = X /\ call.prior.kind = "eval"
            /\ call.prior.args = args
    THEN [kind |-> "replaced", outcome |-> call.prior.outcome]
  ELSE IF call.kind = "set" /\ call.op = X /\ call.prior.kind = "set"
    THEN [kind |-> "reset", was |-> call.prior.arg]
  ELSE [kind |-> "none"]

\* ------------------------------------------------------------------ actions
GetObjective ==
  /\ instance
  /\ call' = [kind |-> "get", op |-> "objective", result |-> get_objective]
  /\ UNCHANGED <<template, members, ctor, setBy>>

GetObjectiveGradient ==
  /\ instance
  /\ call' = [kind |-> "get", op |-> "objective_gradient", result |-> get_objective_gradient]
  /\ UNCHANGED <<template, members, ctor, setBy>>

GetObjectiveHessian ==
  /\ instance
  /\ call' = [kind |-> "get", op |-> "objective_hessian", result |-> get_objective_hessian]
  /\ UNCHANGED <<template, members, ctor, setBy>>

GetConstraints ==
  /\ instance
  /\ call' = [kind |-> "get", op |-> "constraints", result |-> get_constraints]
  /\ UNCHANGED <<template, members, ctor, setBy>>

GetConstraintsJacobian ==
  /\ instance
  /\ call' = [kind |-> "get", op |-> "constraints_jacobian", result |-> get_constraints_jacobian]
  /\ UNCHANGED <<template, members, ctor, setBy>>

GetLagrangianHessian ==
  /\ instance
  /\ call' = [kind |-> "get", op |-> "lagrangian_hessian", result |-> get_lagrangian_hessian]
  /\ UNCHANGED <<template, members, ctor, setBy>>

SetObjective ==
  \E f \in Handles :
    /\ instance
    /\ CanSet("objective")
    /\ set_objective(f)
    /\ setBy' = Put("objective", f)
    /\ call' = [kind |-> "set", op |-> "objective", arg |-> f,
                prior |-> SetPrior("objective")]
    /\ UNCHANGED <<template, ctor>>

SetObjectiveGradient ==
  \E f \in Handles :
    /\ instance
    /\ CanSet("objective_gradient")
    /\ set_objective_gradient(f)
    /\ setBy' = Put("objective_gradient", f)
    /\ call' = [kind |-> "set", op |-> "objective_gradient", arg |-> f,
                prior |-> SetPrior("objective_gradient")]
    /\ UNCHANGED <<template, ctor>>

SetObjectiveHessian ==
  \E f \in Handles :
    /\ instance
    /\ CanSet("objective_hessian")
    /\ set_objective_hessian(f)
    /\ setBy' = Put("objective_hessian", f)
    /\ call' = [kind |-> "set", op |-> "objective_hessian", arg |-> f,
                prior |-> SetPrior("objective_hessian")]
    /\ UNCHANGED <<template, ctor>>

SetConstraints ==
  \E f \in Handles :
    /\ instance
    /\ CanSet("constraints")
    /\ set_constraints(f)
    /\ setBy' = Put("constraints", f)
    /\ call' = [kind |-> "set", op |-> "constraints", arg |-> f,
                prior |-> SetPrior("constraints")]
    /\ UNCHANGED <<template, ctor>>

SetConstraintsJacobian ==
  \E f \in Handles :
    /\ instance
    /\ CanSet("constraints_jacobian")
    /\ set_constraints_jacobian(f)
    /\ setBy' = Put("constraints_jacobian", f)
    /\ call' = [kind |-> "set", op |-> "constraints_jacobian", arg |-> f,
                prior |-> SetPrior("constraints_jacobian")]
    /\ UNCHANGED <<template, ctor>>

SetLagrangianHessian ==
  \E f \in Handles :
    /\ instance
    /\ CanSet("lagrangian_hessian")
    /\ set_lagrangian_hessian(f)
    /\ setBy' = Put("lagrangian_hessian", f)
    /\ call' = [kind |-> "set", op |-> "lagrangian_hessian", arg |-> f,
                prior |-> SetPrior("lagrangian_hessian")]
    /\ UNCHANGED <<template, ctor>>

EvalObjective ==
  \E x \in PrimalVectors :
    /\ instance
    /\ call' = [kind |-> "eval", op |-> "objective", args |-> <<x>>,
                outcome |-> objective(x),
                prior |-> EvalPrior("objective", <<x>>)]
    /\ UNCHANGED <<template, members, ctor, setBy>>

EvalObjectiveGradient ==
  \E x \in PrimalVectors :
    /\ instance
    /\ call' = [kind |-> "eval", op |-> "objective_gradient", args |-> <<x>>,
                outcome |-> objective_gradient(x),
                prior |-> EvalPrior("objective_gradient", <<x>>)]
    /\ UNCHANGED <<template, members, ctor, setBy>>

EvalObjectiveHessianConsuming ==
  \E x \in PrimalVectors :
    /\ instance
    /\ call' = [kind |-> "eval", op |-> "objective_hessian", args |-> <<x>>,
                outcome |-> objective_hessian(x),
                prior |-> EvalPrior("objective_hessian", <<x>>)]
    /\ m_objective_hessian' = NULL
    /\ UNCHANGED <<template, ctor, setBy, m_objective, m_objective_gradient,
                   m_constraints, m_constraints_jacobian, m_lagrangian_hessian>>

EvalObjectiveHessian ==
  \E x \in PrimalVectors :
    /\ instance
    /\ call' = [kind |-> "eval", op |-> "objective_hessian", args |-> <<x>>,
                outcome |-> objective_hessian(x),
                prior |-> EvalPrior("objective_hessian", <<x>>)]
    /\ UNCHANGED <<template, members, ctor, setBy>>

EvalConstraints ==
  \E x \in PrimalVectors :
    /\ instance
    /\ call' = [kind |-> "eval", op |-> "constraints", args |-> <<x>>,
                outcome |-> constraints(x),
                prior |-> EvalPrior("constraints", <<x>>)]
    /\ UNCHANGED <<template, members, ctor, setBy>>

EvalConstraintsJacobian ==
  \E x \in PrimalVectors, z \in DualVectors :
    /\ instance
    /\ call' = [kind |-> "eval", op |-> "constraints_jacobian", args |-> <<x, z>>,
                outcome |-> constraints_jacobian(x, z),
                prior |-> EvalPrior("constraints_jacobian", <<x, z>>)]
    /\ UNCHANGED <<template, members, ctor, setBy>>

EvalLagrangianHessian ==
  \E x \in PrimalVectors, z \in DualVectors :
    /\ instance
    /\ call' = [kind |-> "eval", op |-> "lagrangian_hessian", args |-> <<x, z>>,
                outcome |-> lagrangian_hessian(x, z),
                prior |-> EvalPrior("lagrangian_hessian", <<x, z>>)]
    /\ UNCHANGED <<template, members, ctor, setBy>>

\* ------------------------------------------------------------ specification
\* Constructor arguments tried: neighbouring parameters get different
\* callables, and parameter e, if any, is an empty handle.
EmptyChoices == {"none", "objective"}

Supplied(P, e) ==
  [X \in P |-> IF X = e THEN NULL
               ELSE ((CHOOSE i \in 1..Len(Ops) : Ops[i] = X) % NumHandles) + 1]

InitSix(e) ==
  LET a == Supplied(OpNames, e) IN
  /\ ctor = [form |-> "six", args |-> a]
  /\ Constructed(Ctor6(a["objective"], a["objective_gradient"],
                       a["objective_hessian"], a["constraints"],
                       a["constraints_jacobian"], a["lagrangian_hessian"]))

InitFive(e) ==
  LET a == Supplied(OpNames \ {"objective_hessian"}, e) IN
  /\ ctor = [form |-> "five", args |-> a]
  /\ Constructed(Ctor5(a["objective"], a["objective_gradient"],
                       a["constraints"], a["constraints_jacobian"],
                       a["lagrangian_hessian"]))

Init ==
  /\ Real = "double" /\ N = MaxDim /\ M = MaxDim
  /\ instance = StaticAsserts(Real, N, M)
  /\ instance
  /\ history = FALSE
  /\ setBy = << >>
  /\ call = [kind |-> "ctor"]
  /\ \/ \E e \in EmptyChoices : InitSix(e)
     \/ InitFive("none")

\* As Init for fully supplied constructors, with every call recording the
\* call before it.
InitHistory ==
  /\ Real = "double" /\ N = MaxDim /\ M = MaxDim
  /\ instance = StaticAsserts(Real, N, M)
  /\ instance
  /\ history = TRUE
  /\ setBy = << >>
  /\ call = [kind |-> "ctor"]
  /\ InitSix("none") \/ InitFive("none")

\* Any template arguments: the class is instantiated, and an object is
\* constructed, only when the static assertions hold.
InitInst ==
  /\ Real \in RealTypes /\ N \in Dims /\ M \in Dims
  /\ instance = StaticAsserts(Real, N, M)
  /\ history = FALSE
  /\ setBy = << >>
  /\ call = [kind |-> "ctor"]
  /\ IF instance
       THEN InitSix("none")
       ELSE /\ ctor = [form |-> "none"]
            /\ Constructed(Ctor6(NULL, NULL, NULL, NULL, NULL, NULL))

Next ==
  \/ GetObjective
  \/ GetObjectiveGradient
  \/ GetObjectiveHessian
  \/ GetConstraints
  \/ GetConstraintsJacobian
  \/ GetLagrangianHessian
  \/ SetObjective
  \/ SetObjectiveGradient
  \/ SetObjectiveHessian
  \/ SetConstraints
  \/ SetConstraintsJacobian
  \/ SetLagrangianHessian
  \/ EvalObjective
  \/ EvalObjectiveGradient
  \/ EvalObjectiveHessian
  \/ EvalConstraints
  \/ EvalConstraintsJacobian
  \/ EvalLagrangianHessian

Spec     == Init /\ [][Next]_vars
SpecInst == InitInst /\ [][Next]_vars
SpecHistory == InitHistory /\ [][Next]_vars

\* ------------------------------------------------- helpers for the claims
\* Evaluation of operation Y at args, by the method of that name.
EvalOf(Y, args) ==
  CASE Y = "objective"            -> objective(args[1])
    [] Y = "objective_gradient"   -> objective_gradient(args[1])
    [] Y = "objective_hessian"    -> objective_hessian(args[1])
    [] Y = "constraints"          -> constraints(args[1])
    [] Y = "constraints_jacobian" -> constraints_jacobian(args[1], args[2])
    [] Y = "lagrangian_hessian"   -> lagrangian_hessian(args[1], args[2])

\* The getter of operation Y.
GetOf(Y) ==
  CASE Y = "objective"            -> get_objective
    [] Y = "objective_gradient"   -> get_objective_gradient
    [] Y = "objective_hessian"    -> get_objective_hessian
    [] Y = "constraints"          -> get_constraints
    [] Y = "constraints_jacobian" -> get_constraints_jacobian
    [] Y = "lagrangian_hessian"   -> get_lagrangian_hessian

\* The setter action of operation Y.
SetterOf(Y) ==
  CASE Y = "objective"            -> SetObjective
    [] Y = "objective_gradient"   -> SetObjectiveGradient
    [] Y = "objective_hessian"    -> SetObjectiveHessian
    [] Y = "constraints"          -> SetConstraints
    [] Y = "constraints_jacobian" -> SetConstraintsJacobian
    [] Y = "lagrangian_hessian"   -> SetLagrangianHessian

\* The argument lists operation Y accepts.
ArgsOf(Y) ==
  IF Y \in {"constraints_jacobian", "lagrangian_hessian"}
    THEN {<<x, z>> : x \in PrimalVectors, z \in DualVectors}
    ELSE {<<x>> : x \in PrimalVectors}

\* ------------------------------------------------------------------ claims

\* C1: on an object built by the six-handle constructor, every evaluation of
\* an operation whose handle was not replaced since returns exactly what the
\* callable supplied under that operation's name does on the same arguments.
C1_SixHandleDelegation ==
  (/\ ctor.form = "six"
   /\ call.kind = "eval"
   /\ call.op \notin DOMAIN setBy
   /\ ctor.args[call.op] # NULL)
  => call.outcome = Target(ctor.args[call.op], call.args)

C1_Witness ==
  /\ ctor.form = "six"
  /\ call.kind = "eval"
  /\ call.op = "constraints_jacobian"
  /\ call.op \notin DOMAIN setBy
  /\ DOMAIN setBy # {}
  /\ call.outcome.kind = "returns"

C3_SetterGetterRoundTrip ==
  (call.kind = "get" /\ call.op \in DOMAIN setBy)
  => call.result = setBy[call.op]

C3_Witness ==
  /\ call.kind = "get"
  /\ call.op \in DOMAIN setBy
  /\ call.result # NULL
  /\ \E Y \in DOMAIN setBy : Y # call.op /\ setBy[Y] # call.result

\* C4: a setter call for X leaves the stored handle, the getter and every
\* evaluation of each other operation Y as they were before the call.
C4_SetterFrame ==
  [][call'.kind = "set" =>
       \A Y \in OpNames \ {call'.op} :
         /\ Member(Y)' = Member(Y)
         /\ GetOf(Y)' = GetOf(Y)
         /\ \A a \in ArgsOf(Y) : EvalOf(Y, a)' = EvalOf(Y, a)]_vars

C4_Witness ==
  /\ call.kind = "set"
  /\ Member(call.op) = call.arg
  /\ \E Y \in OpNames \ {call.op} : Member(Y) \notin {NULL, call.arg}

\* C5: an evaluation of an operation whose stored handle is empty fails with
\* bad_function_call; it never returns a value.
C5_UnsetEvaluationFails ==
  (call.kind = "eval" /\ Member(call.op) = NULL)
  => call.outcome.kind = "bad_function_call"

C5_Witness ==
  /\ call.kind = "eval"
  /\ call.op \in DOMAIN setBy
  /\ setBy[call.op] = NULL
  /\ call.op \in DOMAIN ctor.args
  /\ ctor.args[call.op] # NULL
  /\ call.outcome.kind = "bad_function_call"

\* C6: an object exists only for template arguments with a floating-point
\* Real, N > 0 and M > 0; for any other arguments nothing is ever called, and
\* no evaluation reports a template-argument error.
C6_InstantiationNeedsValidTemplate ==
  /\ (instance => (IsFloatingPoint(Real) /\ N > 0 /\ M > 0))
  /\ (~instance => call.kind = "ctor")
  /\ (call.kind = "eval"
       => call.outcome.kind \in {"returns", "throws", "bad_function_call"})

C6_Witness ==
  /\ ~instance
  /\ IsFloatingPoint(Real)
  /\ N = 0
  /\ M > 0

\* C7: the stored handle of X changes only in a step that is a setter call
\* for X.
C7_HandleChangesOnlyBySetter ==
  [][members' # members =>
       \A X \in OpNames :
         Member(X)' # Member(X) => (call'.kind = "set" /\ call'.op = X)]_vars

C7_Witness ==
  /\ call.kind = "eval"
  /\ call.outcome.kind = "bad_function_call"
  /\ \E X \in OpNames \ {call.op} :
       /\ X \notin DOMAIN setBy
       /\ X \in DOMAIN ctor.args
       /\ Member(X) = ctor.args[X]
       /\ Member(X) # NULL
  /\ DOMAIN setBy # {}

\* C8: the outcome of an evaluation is the outcome of invoking the handle
\* stored now on the call's arguments; repeating an evaluation gives the same
\* outcome, and an evaluation made after the handle was replaced gives the
\* new handle's outcome.
C8_NoCache ==
  call.kind = "eval" =>
    /\ call.outcome = Invoke(Member(call.op), call.args)
    /\ (call.prior.kind = "same" => call.outcome = call.prior.outcome)
    /\ (call.prior.kind = "replaced"
         => call.outcome = Invoke(setBy[call.op], call.args))

C8_Witness ==
  /\ call.kind = "eval"
  /\ call.prior.kind = "replaced"
  /\ call.prior.outcome.kind = "returns"
  /\ call.outcome.kind = "returns"
  /\ call.outcome # call.prior.outcome

\* C9: when the stored handle is not empty, the outcome of an evaluation is
\* exactly the outcome of the caller's callable on the same arguments: its
\* value, or its own failure.
C9_HandleFailurePropagates ==
  (call.kind = "eval" /\ Member(call.op) # NULL)
  => call.outcome = Target(Member(call.op), call.args)

C9_Witness ==
  /\ call.kind = "eval"
  /\ HasNaN(call.args[1])
  /\ call.outcome.kind = "throws"
  /\ call.outcome.what = <<Member(call.op), call.args>>

\* C10: after a setter call for X with an empty handle X is unset and its
\* evaluation fails; after a setter call with a callable H it is set and its
\* evaluation gives H's outcome; and the setter for X can still replace the
\* handle.
C10_Reversible ==
  \A X \in DOMAIN setBy :
    /\ Member(X) = setBy[X]
    /\ ((call.kind = "eval" /\ call.op = X) =>
         IF setBy[X] = NULL
           THEN call.outcome.kind = "bad_function_call"
           ELSE call.outcome = Target(setBy[X], call.args))
    /\ ENABLED (SetterOf(X) /\ Member(X)' # Member(X))

C10_Witness ==
  /\ ctor.form = "five"
  /\ call.kind = "eval"
  /\ call.op = "objective_hessian"
  /\ call.prior.kind = "reset"
  /\ call.prior.was = NULL
  /\ call.outcome.kind = "returns"
====
